---- MODULE Spec2Model ----
(***************************************************************************)
(* Model of the editing core of src/src/index.js (class Editor): the       *)
(* bounded undo/redo history (_history, _recordChange, _applyEdits,        *)
(* _undoEdit, _redoEdit), the key transforms of _handleKeyDown and the     *)
(* change handler _handleChange.                                           *)
(*                                                                         *)
(* A string is a sequence of one-character strings; JavaScript's 0-based   *)
(* positions are kept, so stack[i] of the source is stack[i + 1] here.     *)
(***************************************************************************)
EXTENDS Integers, Sequences, FiniteSets, TLC

VARIABLES
    stack,         \* this._history.stack
    offset,        \* this._history.offset
    input,         \* this._input: the textarea (value, selectionStart, selectionEnd)
    now,           \* Date.now()
    tabSize,       \* this.props.tabSize
    insertSpaces,  \* this.props.insertSpaces
    mounted,       \* componentDidMount has run
    ev,            \* the last handler that ran and what it emitted
    trip           \* the run of undo calls and then redo calls in progress

vars == <<stack, offset, input, now, tabSize, insertSpaces, mounted, ev, trip>>

---------------------------------------------------------------------------
(* Program constants *)

KEYCODE_ENTER == 13
KEYCODE_TAB == 9
KEYCODE_BACKSPACE == 8
KEYCODE_Z == 90

HISTORY_LIMIT == 100
HISTORY_TIME_GAP == 3000

---------------------------------------------------------------------------
(* Bounds of the model *)

\* Longest text of the session specification.
MaxLen == 3
\* Most records the session specification lets the history hold.
MaxStack == 2
\* The clock stops after this many time gaps.
MaxGaps == 1
\* Longest run of undo calls that is followed.
MaxTrip == 3

\* The clock advances by the time gap: a change comes in the millisecond
\* of the entry before it, or exactly HISTORY_TIME_GAP after it.
TickStep == HISTORY_TIME_GAP

---------------------------------------------------------------------------
(* JavaScript values and string functions *)

Max(a, b) == IF a > b THEN a ELSE b
Min(a, b) == IF a < b THEN a ELSE b

\* undefined / null
None == [none |-> TRUE]

NL == "\n"
SP == " "

\* The characters of the model's texts matched by [a-z0-9] under the i flag.
Alnum == {"a", "b", "c", "d", "f", "o"}
\* The characters of the model's texts matched by \s.
Space == {SP, NL}

\* String.prototype.substring(start, end): arguments clamped to [0, length]
\* and swapped when start > end.
substring(s, start, end) ==
    LET a == Max(0, Min(start, Len(s)))
        b == Max(0, Min(end, Len(s)))
    IN SubSeq(s, Min(a, b) + 1, Max(a, b))

\* String.prototype.substring(start)
substringFrom(s, start) == substring(s, start, Len(s))

\* String.prototype.repeat(count)
RECURSIVE repeat(_, _)
repeat(s, count) == IF count <= 0 THEN <<>> ELSE s \o repeat(s, count - 1)

\* String.prototype.endsWith / startsWith
endsWith(s, suffix) ==
    /\ Len(suffix) <= Len(s)
    /\ SubSeq(s, Len(s) - Len(suffix) + 1, Len(s)) = suffix

startsWith(s, prefix) ==
    /\ Len(prefix) <= Len(s)
    /\ SubSeq(s, 1, Len(prefix)) = prefix

\* s.split('\n'): the lines of s, a non-empty sequence of strings.
RECURSIVE splitLines(_)
splitLines(s) ==
    IF \A i \in 1..Len(s) : s[i] # NL
    THEN <<s>>
    ELSE LET i == CHOOSE k \in 1..Len(s) :
                      s[k] = NL /\ \A j \in 1..(k - 1) : s[j] # NL
         IN <<SubSeq(s, 1, i - 1)>> \o splitLines(SubSeq(s, i + 1, Len(s)))

\* lines.join('\n')
RECURSIVE joinLines(_)
joinLines(lines) ==
    IF Len(lines) = 0 THEN <<>>
    ELSE IF Len(lines) = 1 THEN lines[1]
    ELSE lines[1] \o <<NL>> \o joinLines(Tail(lines))

\* s.split('\n').pop()
lastLine(s) == LET lines == splitLines(s) IN lines[Len(lines)]

\* The length of the longest suffix of s made of characters of set.
RECURSIVE trailingRun(_, _)
trailingRun(s, set) ==
    IF Len(s) = 0 \/ s[Len(s)] \notin set THEN 0
    ELSE 1 + trailingRun(SubSeq(s, 1, Len(s) - 1), set)

\* The length of the longest prefix of s made of characters of set.
RECURSIVE leadingRun(_, _)
leadingRun(s, set) ==
    IF Len(s) = 0 \/ s[1] \notin set THEN 0
    ELSE 1 + leadingRun(Tail(s), set)

\* line.match(/[^a-z0-9]([a-z0-9]+)$/i) (its group 1), or None when there is no match:
\* the alphanumeric run ending the line, when it is not empty and a
\* character that is not alphanumeric stands before it.
matchLastWord(line) ==
    LET k == trailingRun(line, Alnum)
    IN IF k >= 1 /\ k < Len(line)
       THEN [group1 |-> SubSeq(line, Len(line) - k + 1, Len(line))]
       ELSE None

\* line.match(/^\s+/) (its group 0), or None when there is no match.
matchIndent(line) ==
    LET k == leadingRun(line, Space)
    IN IF k >= 1 THEN [group0 |-> SubSeq(line, 1, k)] ELSE None

\* A Record of the source, and a stack entry { ...record, timestamp }.
Record(value, selectionStart, selectionEnd) ==
    [value |-> value, selectionStart |-> selectionStart,
     selectionEnd |-> selectionEnd]

Stamped(record, timestamp) ==
    [value |-> record.value, selectionStart |-> record.selectionStart,
     selectionEnd |-> record.selectionEnd, timestamp |-> timestamp]

Unstamped(entry) ==
    Record(entry.value, entry.selectionStart, entry.selectionEnd)

\* array[i] of JavaScript: undefined outside of the array.
At(array, i) == IF i + 1 \in DOMAIN array THEN array[i + 1] ELSE None

\* The History of the source.
History(s, o) == [stack |-> s, offset |-> o]

---------------------------------------------------------------------------
(* The history *)

\* Mutant of dropRedoAndLimit: the redo records are kept.
dropRedoAndLimit_keep(h) ==
    IF Len(h.stack) > HISTORY_LIMIT
    THEN History(SubSeq(h.stack, Len(h.stack) - HISTORY_LIMIT + 1, Len(h.stack)),
                 Max(h.offset - (Len(h.stack) - HISTORY_LIMIT), 0))
    ELSE h

\* Mutant of dropRedoAndLimit: the newest records are dropped, not the
\* oldest.
dropRedoAndLimit_newest(h) ==
    IF Len(h.stack) # 0 /\ h.offset > -1
    THEN LET sliced == SubSeq(h.stack, 1, h.offset + 1)
             count == Len(sliced)
             extras == count - HISTORY_LIMIT
         IN IF count > HISTORY_LIMIT
            THEN History(SubSeq(h.stack, 1, HISTORY_LIMIT),
                         Max(h.offset - extras, 0))
            ELSE History(sliced, h.offset)
    ELSE h

\* Lines 85-98 of _recordChange: drop the redo records, then limit the
\* number of records. The second slice is taken from the stack as it was
\* on entry, as in the source.
dropRedoAndLimit(h) ==
    IF Len(h.stack) # 0 /\ h.offset > -1
    THEN LET sliced == SubSeq(h.stack, 1, h.offset + 1)
             count == Len(sliced)
             extras == count - HISTORY_LIMIT
         IN IF count > HISTORY_LIMIT
            THEN History(SubSeq(h.stack, extras + 1, count),
                         Max(h.offset - extras, 0))
            ELSE History(sliced, h.offset)
    ELSE h

\* timestamp - last.timestamp < HISTORY_TIME_GAP
inShortInterval(timestamp, last) ==
    timestamp - last.timestamp < HISTORY_TIME_GAP

\* Lines 109-125 of _recordChange: the last word before the caret of the
\* previous entry and of the new record match.
lastWordsMatch(last, record) ==
    LET previous ==
            matchLastWord(lastLine(substring(last.value, 0, last.selectionStart)))
        current ==
            matchLastWord(lastLine(substring(record.value, 0, record.selectionStart)))
    IN /\ previous # None
       /\ current # None
       /\ startsWith(current.group1, previous.group1)

\* Lines 102-133 of _recordChange: the new record overwrites the entry at
\* offset of history h (already cut by dropRedoAndLimit).
overwrites(h, record, overwrite, timestamp) ==
    /\ overwrite
    /\ At(h.stack, h.offset) # None
    /\ inShortInterval(timestamp, At(h.stack, h.offset))
    /\ lastWordsMatch(At(h.stack, h.offset), record)

\* _recordChange(record, overwrite) at time timestamp, from history h.
_recordChange(h, record, overwrite, timestamp) ==
    LET h1 == dropRedoAndLimit(h)
    IN IF overwrites(h1, record, overwrite, timestamp)
       THEN History([h1.stack EXCEPT ![h1.offset + 1] = Stamped(record, timestamp)],
                    h1.offset)
       ELSE History(Append(h1.stack, Stamped(record, timestamp)),
                    h1.offset + 1)

\* A call of props.onValueChange(value), with the value of the history's
\* current record at the moment of the call.
Notice(value, h) ==
    [value |-> value,
     current |-> IF At(h.stack, h.offset) # None
                 THEN At(h.stack, h.offset).value ELSE None]

\* What a handler leaves: the history, the textarea, the calls of
\* onValueChange it made, and whether it called e.preventDefault().
Outcome(h, inp, notified, prevented) ==
    [history |-> h, input |-> inp, notified |-> notified,
     prevented |-> prevented]

\* Mutant of saveSelection: the current entry keeps the selection it was
\* recorded with.
saveSelection_skip(h, inp) == h

\* Lines 156-164 of _applyEdits: save the textarea's selection in the
\* current entry.
saveSelection(h, inp) ==
    LET last == At(h.stack, h.offset)
    IN IF last # None
       THEN History([h.stack EXCEPT ![h.offset + 1] =
                        [last EXCEPT !.selectionStart = inp.selectionStart,
                                     !.selectionEnd = inp.selectionEnd]],
                    h.offset)
       ELSE h

\* Mutant of _applyEdits: the change is recorded and the textarea is not
\* updated.
_applyEdits_silent(h, inp, record, timestamp) ==
    LET h1 == _recordChange(saveSelection(h, inp), record, FALSE, timestamp)
    IN Outcome(h1, inp, <<>>, TRUE)

\* _applyEdits(record): save the selection, record the change, then
\* _updateInput(record).
_applyEdits(h, inp, record, timestamp) ==
    LET h1 == _recordChange(saveSelection(h, inp), record, FALSE, timestamp)
    IN Outcome(h1, record, <<Notice(record.value, h1)>>, TRUE)

\* Mutant of _undoEdit: the offset moves although there is no earlier
\* record.
_undoEdit_unguarded(h, inp) ==
    LET record == At(h.stack, h.offset - 1)
    IN IF record # None
       THEN Outcome(History(h.stack, Max(h.offset - 1, 0)), Unstamped(record),
                    <<Notice(record.value, h)>>, TRUE)
       ELSE Outcome(History(h.stack, h.offset - 1), inp, <<>>, TRUE)

\* Mutant of _undoEdit: the index of the previous edit is clamped like the
\* offset, so that the first record is applied again.
_undoEdit_clamped(h, inp) ==
    LET record == At(h.stack, Max(h.offset - 1, 0))
    IN IF record # None
       THEN Outcome(History(h.stack, Max(h.offset - 1, 0)), Unstamped(record),
                    <<Notice(record.value, h)>>, TRUE)
       ELSE Outcome(h, inp, <<>>, TRUE)

\* _undoEdit(): _updateInput runs before the offset moves.
_undoEdit(h, inp) ==
    LET record == At(h.stack, h.offset - 1)
    IN IF record # None
       THEN Outcome(History(h.stack, Max(h.offset - 1, 0)), Unstamped(record),
                    <<Notice(record.value, h)>>, TRUE)
       ELSE Outcome(h, inp, <<>>, TRUE)

\* Mutant of _redoEdit: the record is applied and the offset stays.
_redoEdit_stay(h, inp) ==
    LET record == At(h.stack, h.offset + 1)
    IN IF record # None
       THEN Outcome(h, Unstamped(record), <<Notice(record.value, h)>>, TRUE)
       ELSE Outcome(h, inp, <<>>, TRUE)

\* _redoEdit()
_redoEdit(h, inp) ==
    LET record == At(h.stack, h.offset + 1)
    IN IF record # None
       THEN Outcome(History(h.stack, Min(h.offset + 1, Len(h.stack) - 1)),
                    Unstamped(record), <<Notice(record.value, h)>>, TRUE)
       ELSE Outcome(h, inp, <<>>, TRUE)

---------------------------------------------------------------------------
(* The key transforms of _handleKeyDown *)

\* Line 201: the indent unit.
tabCharacter(size, spaces) ==
    repeat(IF spaces THEN <<SP>> ELSE <<SP, SP, SP, SP, SP>>, size)

\* value.substring(0, position).split('\n').length - 1
lineOf(value, position) == Len(splitLines(substring(value, 0, position))) - 1

\* Mutant of insertTab: the caret is not moved past the inserted tab.
insertTab_caret(target, tab) ==
    Record(substring(target.value, 0, target.selectionStart) \o tab
               \o substringFrom(target.value, target.selectionEnd),
           target.selectionStart, target.selectionStart)

\* Lines 207-219: Tab with a collapsed selection.
insertTab(target, tab) ==
    LET updatedSelection == target.selectionStart + Len(tab)
    IN Record(substring(target.value, 0, target.selectionStart) \o tab
                  \o substringFrom(target.value, target.selectionEnd),
              updatedSelection, updatedSelection)

\* Mutant of indentLines: the line that holds the start of the selection
\* is not indented.
indentLines_afterStart(target, tab) ==
    LET startLine == lineOf(target.value, target.selectionStart)
        endLine == lineOf(target.value, target.selectionEnd)
        lines == splitLines(target.value)
    IN Record(joinLines([i \in 1..Len(lines) |->
                            IF i - 1 > startLine /\ i - 1 <= endLine
                            THEN tab \o lines[i] ELSE lines[i]]),
              target.selectionStart + Len(tab),
              target.selectionEnd + Len(tab) * (endLine - startLine + 1))

\* Mutant of indentLines: the end of the selection moves by one tab for
\* every line up to endLine, not only for the lines from startLine on.
indentLines_fromTop(target, tab) ==
    LET startLine == lineOf(target.value, target.selectionStart)
        endLine == lineOf(target.value, target.selectionEnd)
        lines == splitLines(target.value)
    IN Record(joinLines([i \in 1..Len(lines) |->
                            IF i - 1 >= startLine /\ i - 1 <= endLine
                            THEN tab \o lines[i] ELSE lines[i]]),
              target.selectionStart + Len(tab),
              target.selectionEnd + Len(tab) * (endLine + 1))

\* Lines 220-242: Tab with a selection indents the selected lines.
indentLines(target, tab) ==
    LET startLine == lineOf(target.value, target.selectionStart)
        endLine == lineOf(target.value, target.selectionEnd)
        lines == splitLines(target.value)
    IN Record(joinLines([i \in 1..Len(lines) |->
                            IF i - 1 >= startLine /\ i - 1 <= endLine
                            THEN tab \o lines[i] ELSE lines[i]]),
              target.selectionStart + Len(tab),
              target.selectionEnd + Len(tab) * (endLine - startLine + 1))

\* Lines 203-242: the record the Tab key applies.
tabEdit(target, tab) ==
    IF target.selectionStart = target.selectionEnd
    THEN insertTab(target, tab)
    ELSE indentLines(target, tab)

\* Mutant of backspaceEdit: one character is removed, as the textarea
\* itself would.
backspaceEdit_one(target, tab) ==
    LET hasSelection == target.selectionStart # target.selectionEnd
        textBeforeCaret == substring(target.value, 0, target.selectionStart)
        updatedSelection == Max(target.selectionStart - 1, 0)
    IN IF endsWith(textBeforeCaret, tab) /\ ~hasSelection
       THEN Record(substring(target.value, 0, updatedSelection)
                       \o substringFrom(target.value, target.selectionEnd),
                   updatedSelection, updatedSelection)
       ELSE None

\* Mutant of backspaceEdit: a selection does not keep the key from being
\* intercepted.
backspaceEdit_selection(target, tab) ==
    LET textBeforeCaret == substring(target.value, 0, target.selectionStart)
        updatedSelection == target.selectionStart - Len(tab)
    IN IF endsWith(textBeforeCaret, tab)
       THEN Record(substring(target.value, 0, target.selectionStart - Len(tab))
                       \o substringFrom(target.value, target.selectionEnd),
                   updatedSelection, updatedSelection)
       ELSE None

\* Lines 243-262: the record the Backspace key applies, None when the key
\* is left to the textarea.
backspaceEdit(target, tab) ==
    LET hasSelection == target.selectionStart # target.selectionEnd
        textBeforeCaret == substring(target.value, 0, target.selectionStart)
        updatedSelection == target.selectionStart - Len(tab)
    IN IF endsWith(textBeforeCaret, tab) /\ ~hasSelection
       THEN Record(substring(target.value, 0, target.selectionStart - Len(tab))
                       \o substringFrom(target.value, target.selectionEnd),
                   updatedSelection, updatedSelection)
       ELSE None

\* Mutant of enterEdit: a bare line break is inserted.
enterEdit_bare(target) ==
    IF target.selectionStart = target.selectionEnd
    THEN LET line == lastLine(substring(target.value, 0, target.selectionStart))
             matches == matchIndent(line)
         IN IF matches # None
            THEN Record(substring(target.value, 0, target.selectionStart)
                            \o <<NL>>
                            \o substringFrom(target.value, target.selectionEnd),
                        target.selectionStart + 1, target.selectionStart + 1)
            ELSE None
    ELSE None

\* Lines 263-291: the record the Enter key applies, None when the key is
\* left to the textarea.
enterEdit(target) ==
    IF target.selectionStart = target.selectionEnd
    THEN LET line == lastLine(substring(target.value, 0, target.selectionStart))
             matches == matchIndent(line)
         IN IF matches # None
            THEN LET indent == <<NL>> \o matches.group0
                     updatedSelection == target.selectionStart + Len(indent)
                 IN Record(substring(target.value, 0, target.selectionStart)
                               \o indent
                               \o substringFrom(target.value, target.selectionEnd),
                           updatedSelection, updatedSelection)
            ELSE None
    ELSE None

\* A key event: its keyCode and modifier flags.
KeyEvent(keyCode, metaKey, ctrlKey, altKey, shiftKey) ==
    [keyCode |-> keyCode, metaKey |-> metaKey, ctrlKey |-> ctrlKey,
     altKey |-> altKey, shiftKey |-> shiftKey]

PlainKey(keyCode) == KeyEvent(keyCode, FALSE, FALSE, FALSE, FALSE)

\* _handleKeyDown(e) with e.target the textarea inp, at time timestamp.
_handleKeyDown(h, inp, e, timestamp, size, spaces) ==
    LET tab == tabCharacter(size, spaces)
    IN IF e.keyCode = KEYCODE_TAB
       THEN _applyEdits(h, inp, tabEdit(inp, tab), timestamp)
       ELSE IF e.keyCode = KEYCODE_BACKSPACE
       THEN IF backspaceEdit(inp, tab) # None
            THEN _applyEdits(h, inp, backspaceEdit(inp, tab), timestamp)
            ELSE Outcome(h, inp, <<>>, FALSE)
       ELSE IF e.keyCode = KEYCODE_ENTER
       THEN IF enterEdit(inp) # None
            THEN _applyEdits(h, inp, enterEdit(inp), timestamp)
            ELSE Outcome(h, inp, <<>>, FALSE)
       ELSE IF e.keyCode = KEYCODE_Z /\ e.metaKey # e.ctrlKey /\ ~e.altKey
       THEN IF e.shiftKey THEN _redoEdit(h, inp) ELSE _undoEdit(h, inp)
       ELSE Outcome(h, inp, <<>>, FALSE)

\* Mutant of _handleChange: onValueChange is called before the change is
\* recorded.
_handleChange_early(h, target, timestamp) ==
    LET h1 == _recordChange(h, target, TRUE, timestamp)
    IN Outcome(h1, target, <<Notice(target.value, h)>>, FALSE)

\* _handleChange(e) with e.target the textarea, already edited by the host.
_handleChange(h, target, timestamp) ==
    LET h1 == _recordChange(h, target, TRUE, timestamp)
    IN Outcome(h1, target, <<Notice(target.value, h1)>>, FALSE)

\* componentDidMount(): _recordCurrentState() records the textarea.
componentDidMount(h, inp, timestamp) ==
    Outcome(_recordChange(h, inp, FALSE, timestamp), inp, <<>>, FALSE)

---------------------------------------------------------------------------
(* The host: the textarea's own editing, the pointer, the clock *)

\* The characters the host types.
Typed == {"a", SP}

\* The textarea after the host typed character c: the selection is replaced
\* by c and the caret stands after it.
hostType(target, c) ==
    Record(substring(target.value, 0, target.selectionStart) \o <<c>>
               \o substringFrom(target.value, target.selectionEnd),
           target.selectionStart + 1, target.selectionStart + 1)

\* The textarea after the host's own deletion: the selection, or the
\* character before the caret.
hostDelete(target) ==
    LET from == IF target.selectionStart # target.selectionEnd
                THEN target.selectionStart
                ELSE Max(target.selectionStart - 1, 0)
    IN Record(substring(target.value, 0, from)
                  \o substringFrom(target.value, target.selectionEnd),
              from, from)

\* The snapshots a change event can carry from the textarea target, when
\* the host types and deletes, and when it only types.
hostEdits(target) ==
    ({hostType(target, c) : c \in Typed} \cup {hostDelete(target)})
        \ {target}

hostTypes(target) == {hostType(target, c) : c \in Typed}

\* The selections the pointer sets in a text: a click at its start.
selections(value) == {<<0, 0>>}

---------------------------------------------------------------------------
(* The run of undo calls and redo calls that the round trip is about *)

Idle == [phase |-> "idle"]

\* The run after the Z key event e was handled with outcome out, from
\* history h and textarea inp.
tripAfter(t, h, inp, e, out) ==
    IF ~(e.metaKey # e.ctrlKey /\ ~e.altKey) THEN Idle
    ELSE IF ~e.shiftKey
    THEN IF t.phase = "undo" /\ t.undos < MaxTrip
         THEN [t EXCEPT !.undos = t.undos + 1]
         ELSE IF t.phase # "undo" /\ h.offset = Len(h.stack) - 1
         THEN [phase |-> "undo", stack |-> h.stack, offset |-> h.offset,
               buffer |-> inp, undos |-> 1, redos |-> 0, writes |-> <<>>]
         ELSE Idle
    ELSE IF t.phase \in {"undo", "redo"} /\ t.redos < t.undos
         THEN [t EXCEPT !.phase = "redo", !.redos = t.redos + 1,
                        !.writes = IF out.notified # <<>>
                                   THEN Append(t.writes, out.input)
                                   ELSE t.writes]
         ELSE Idle

---------------------------------------------------------------------------
(* The session *)

Here == History(stack, offset)

\* What is kept of a step: the handler that ran, whether it called
\* e.preventDefault(), the calls of onValueChange it made, whether
\* _recordChange overwrote the current entry, and the number of redo
\* records the history held when the handler started.
Event(kind, prevented, notified, overwrote) ==
    [kind |-> kind, prevented |-> prevented, notified |-> notified,
     overwrote |-> overwrote, redos |-> Len(stack) - (offset + 1)]

\* The state a handler leaves.
Leaves(kind, out, overwrote, t) ==
    /\ stack' = out.history.stack
    /\ offset' = out.history.offset
    /\ input' = out.input
    /\ ev' = Event(kind, out.prevented, out.notified, overwrote)
    /\ trip' = t
    /\ UNCHANGED <<now, tabSize, insertSpaces>>

Mount ==
    /\ ~mounted
    /\ mounted' = TRUE
    /\ Leaves("mount", componentDidMount(Here, input, now), FALSE, Idle)

Change(targets, maxLen, maxStack) ==
    /\ mounted
    /\ \E target \in targets :
          LET out == _handleChange(Here, target, now)
          IN /\ Len(target.value) <= maxLen
             /\ Len(out.history.stack) <= maxStack
             /\ Leaves("change", out,
                       overwrites(dropRedoAndLimit(Here), target, TRUE, now),
                       Idle)
    /\ UNCHANGED mounted

KeyDown(kind, e, maxLen, maxStack) ==
    /\ mounted
    /\ LET out == _handleKeyDown(Here, input, e, now, tabSize, insertSpaces)
       IN /\ Len(out.history.stack) <= maxStack
          /\ Len(out.input.value) <= maxLen
          /\ Leaves(kind, out, FALSE,
                    IF e.keyCode = KEYCODE_Z
                    THEN tripAfter(trip, Here, input, e, out) ELSE Idle)
    /\ UNCHANGED mounted

KeyTab(maxLen, maxStack) ==
    KeyDown("tab", PlainKey(KEYCODE_TAB), maxLen, maxStack)

KeyBackspace(maxLen, maxStack) ==
    KeyDown("backspace", PlainKey(KEYCODE_BACKSPACE), maxLen, maxStack)

KeyEnter(maxLen, maxStack) ==
    KeyDown("enter", PlainKey(KEYCODE_ENTER), maxLen, maxStack)

\* The chords of the Z key that are pressed: undo, redo, both modifiers
\* held, and the third modifier held.
ZChords ==
    {KeyEvent(KEYCODE_Z, TRUE, FALSE, FALSE, FALSE),
     KeyEvent(KEYCODE_Z, FALSE, TRUE, FALSE, TRUE),
     KeyEvent(KEYCODE_Z, TRUE, TRUE, FALSE, FALSE),
     KeyEvent(KEYCODE_Z, FALSE, TRUE, TRUE, FALSE)}

\* What the chord e of the Z key asks for.
chord(e) ==
    IF e.metaKey # e.ctrlKey /\ ~e.altKey
    THEN IF e.shiftKey THEN "redo" ELSE "undo"
    ELSE "z"

KeyZ(maxLen, maxStack) ==
    \E e \in ZChords : KeyDown(chord(e), e, maxLen, maxStack)

Select ==
    /\ mounted
    /\ \E sel \in selections(input.value) :
          /\ sel # <<input.selectionStart, input.selectionEnd>>
          /\ input' = Record(input.value, sel[1], sel[2])
    /\ ev' = Event("select", FALSE, <<>>, FALSE)
    /\ trip' = Idle
    /\ UNCHANGED <<stack, offset, now, tabSize, insertSpaces, mounted>>

Tick ==
    /\ now + TickStep <= MaxGaps * HISTORY_TIME_GAP
    /\ now' = now + TickStep
    /\ ev' = Event("tick", FALSE, <<>>, FALSE)
    /\ UNCHANGED <<stack, offset, input, tabSize, insertSpaces, mounted, trip>>

\* The texts the textarea holds when the session starts, the caret at
\* their end.
InitValues == {<<SP, "a">>, <<SP, "a", SP>>}

\* The state after construction, the textarea rendered: its snapshot is
\* one of snapshots, the props one of sizes and of spaces.
Constructed(snapshots, sizes, spaces) ==
    /\ stack = <<>>
    /\ offset = -1
    /\ input \in snapshots
    /\ now = 0
    /\ tabSize \in sizes
    /\ insertSpaces \in spaces
    /\ mounted = FALSE
    /\ ev = [kind |-> "init", prevented |-> FALSE, notified |-> <<>>,
             overwrote |-> FALSE, redos |-> 0]
    /\ trip = Idle

Init ==
    Constructed({Record(value, Len(value), Len(value)) : value \in InitValues},
                {1}, {TRUE})

Next ==
    \/ Mount
    \/ Change(hostEdits(input), MaxLen, MaxStack)
    \/ KeyTab(MaxLen, MaxStack)
    \/ KeyBackspace(MaxLen, MaxStack)
    \/ KeyEnter(MaxLen, MaxStack)
    \/ KeyZ(MaxLen, MaxStack)
    \/ Select
    \/ Tick

Spec == Init /\ [][Next]_vars

---------------------------------------------------------------------------
(* The session that fills the history: the Tab key with tabSize 0, which  *)
(* records the unchanged text again, until the history is full; the host  *)
(* only types.                                                             *)

\* Most records the full history is let hold: the limit, the record the
\* source pushes beyond it, and one more.
FullStack == HISTORY_LIMIT + 2

InitFull ==
    Constructed({Record(<<SP, "a">>, 2, 2)}, {0}, {TRUE})

NextFull ==
    \/ Mount
    \/ Change(hostTypes(input), MaxLen, FullStack)
    \/ KeyTab(MaxLen, FullStack)

SpecFull == InitFull /\ [][NextFull]_vars

---------------------------------------------------------------------------
(* The session of the key transforms alone: every short text, every        *)
(* selection in it and every configuration at the start, then the keys.    *)

\* Longest text at the start.
MaxKeyLen == 2
\* Largest props.tabSize.
MaxTabSize == 2
\* Most records the history is let hold.
MaxKeyStack == 2

KeyChars == {"a", SP, NL}

RECURSIVE texts(_)
texts(n) ==
    IF n = 0 THEN {<<>>}
    ELSE LET shorter == texts(n - 1)
         IN shorter \cup {Append(t, c) : t \in shorter, c \in KeyChars}

\* The texts of the properties the specification states by example.
Examples ==
    {<<"a", "b", "c", "d">>, <<"a", NL, "b">>, <<SP, SP, "f", "o", "o">>}

\* The snapshots of text value the host supplies:
\* 0 <= selectionStart <= selectionEnd <= length.
snapshotsOf(value) ==
    {r \in {Record(value, s, e) : s \in 0..Len(value), e \in 0..Len(value)} :
        r.selectionStart <= r.selectionEnd}

Snapshots == UNION {snapshotsOf(v) : v \in texts(MaxKeyLen) \cup Examples}

\* No bound on the texts the transforms build: the history's bound stops
\* them.
AnyLen == 1000

InitKeys == Constructed(Snapshots, 0..MaxTabSize, BOOLEAN)

NextKeys ==
    \/ Mount
    \/ KeyTab(AnyLen, MaxKeyStack)
    \/ KeyBackspace(AnyLen, MaxKeyStack)
    \/ KeyEnter(AnyLen, MaxKeyStack)
    \/ KeyZ(AnyLen, MaxKeyStack)

SpecKeys == InitKeys /\ [][NextKeys]_vars

---------------------------------------------------------------------------
(* The session of indenting and dedenting: the Tab key inserts tab         *)
(* characters at the caret and the Backspace key meets them again.         *)

\* Most records the history is let hold.
MaxIndentStack == 3

\* The texts the textarea holds when the session starts, the caret at
\* their end.
IndentValues == {<<>>, <<SP>>, <<"a">>, <<"a", SP>>}

InitIndent ==
    Constructed({Record(value, Len(value), Len(value)) : value \in IndentValues},
                0..MaxTabSize, BOOLEAN)

NextIndent ==
    \/ Mount
    \/ KeyTab(AnyLen, MaxIndentStack)
    \/ KeyBackspace(AnyLen, MaxIndentStack)

SpecIndent == InitIndent /\ [][NextIndent]_vars

---------------------------------------------------------------------------
(* The session that fills the history with records that all differ: the    *)
(* Tab key with tabSize 1, which makes the text one space longer each      *)
(* time, until the history is full and trimmed.                            *)

\* Tab presses after the history first held more than HISTORY_LIMIT
\* records: the longest text is the first one that is trimmed away
\* and MaxTrims more.
MaxTrims == 3

TrimLen == HISTORY_LIMIT + MaxTrims

InitTrim == Constructed({Record(<<>>, 0, 0)}, {1}, {TRUE})

NextTrim ==
    \/ Mount
    \/ KeyTab(TrimLen, FullStack)

SpecTrim == InitTrim /\ [][NextTrim]_vars

---------------------------------------------------------------------------
(* The session of typing a word: the host types, the pointer puts the      *)
(* caret after the first character, the clock advances, undo and redo.     *)

\* Longest text of the textarea.
MaxWordLen == 4
\* Most records the history is let hold.
MaxWordStack == 3

\* The texts the textarea holds when the session starts, the caret at
\* their end.
WordValues == {<<SP>>, <<SP, "a">>}

\* The pointer puts the caret at one of positions.
Click(positions) ==
    /\ mounted
    /\ \E caret \in positions :
          /\ caret <= Len(input.value)
          /\ caret # input.selectionStart \/ caret # input.selectionEnd
          /\ input' = Record(input.value, caret, caret)
    /\ ev' = Event("select", FALSE, <<>>, FALSE)
    /\ trip' = Idle
    /\ UNCHANGED <<stack, offset, now, tabSize, insertSpaces, mounted>>

InitWord ==
    Constructed({Record(value, Len(value), Len(value)) : value \in WordValues},
                {1}, {TRUE})

NextWord ==
    \/ Mount
    \/ Change(hostTypes(input), MaxWordLen, MaxWordStack)
    \/ KeyZ(MaxWordLen, MaxWordStack)
    \/ Click({1})
    \/ Tick

SpecWord == InitWord /\ [][NextWord]_vars

---------------------------------------------------------------------------
(* The claims *)

\* The handler of the step called _recordChange.
Recorded(e) ==
    \/ e.kind \in {"mount", "change", "tab"}
    \/ e.kind \in {"backspace", "enter"} /\ e.prevented

\* The handler of the step was a key transform that _applyEdits committed.
Transformed(e) ==
    \/ e.kind = "tab"
    \/ e.kind \in {"backspace", "enter"} /\ e.prevented

\* 0 <= selectionStart <= selectionEnd <= length(value)
WellFormed(r) ==
    /\ 0 <= r.selectionStart
    /\ r.selectionStart <= r.selectionEnd
    /\ r.selectionEnd <= Len(r.value)

\* C1: in every state reachable by record calls, the history stack holds
\* at most HISTORY_LIMIT records.
C1_StackWithinLimit == Len(stack) <= HISTORY_LIMIT

\* C2: in every reachable state -1 <= offset < length(stack), and offset is
\* -1 exactly when the stack is empty.
C2_OffsetInRange ==
    /\ -1 <= offset
    /\ offset < Len(stack)
    /\ (offset = -1) <=> (Len(stack) = 0)

\* C2 witness: an undo took effect and left offset at the first of two
\* records.
C2_Witness ==
    /\ ev.kind = "undo"
    /\ ev.notified # <<>>
    /\ offset = 0
    /\ Len(stack) = 2

\* The run is n undo calls followed by n redo calls.
TripDone == trip.phase = "redo" /\ trip.redos = trip.undos

\* The redo calls of the run wrote the records they passed, in the order
\* of the stack.
Replayed ==
    LET k == Len(trip.writes)
    IN /\ k = Min(trip.undos, trip.offset)
       /\ \A i \in 1..k :
             trip.writes[i] = Unstamped(trip.stack[trip.offset - k + 1 + i])

C4_LinearHistory ==
    [][Recorded(ev') =>
          /\ offset' = Len(stack') - 1
          /\ Len(stack') <= offset + 2
          /\ stack'[Len(stack')] = Stamped(input', now')
          /\ _redoEdit(History(stack', offset'), input')
                = Outcome(History(stack', offset'), input', <<>>, TRUE)]_vars

\* C4 witness: a record call ran while the history held redo records.
C4_Witness ==
    /\ Recorded(ev)
    /\ ev.redos > 0
    /\ offset = Len(stack) - 1

\* C5: undo with no earlier record and redo at the newest record change
\* neither the stack, nor offset, nor the buffer, and emit no notification.
C5_NoOpAtBounds ==
    [][(\/ ev'.kind = "undo" /\ offset <= 0
        \/ ev'.kind = "redo" /\ offset = Len(stack) - 1) =>
          /\ stack' = stack
          /\ offset' = offset
          /\ input' = input
          /\ ev'.notified = <<>>]_vars

\* C5 witness: an undo at the first record, with a redo record behind it,
\* did nothing.
C5_Witness ==
    /\ ev.kind = "undo"
    /\ ev.notified = <<>>
    /\ offset = 0
    /\ Len(stack) = 2

\* The change event of the step meets the conditions of coalescing: the
\* current record is younger than HISTORY_TIME_GAP and its last word
\* before the caret is a prefix of the candidate's.
Coalescible ==
    /\ ev'.kind = "change"
    /\ At(stack, offset) # None
    /\ now' - At(stack, offset).timestamp < HISTORY_TIME_GAP
    /\ lastWordsMatch(At(stack, offset), input')

\* C6: a change that meets the conditions of coalescing does not grow the
\* stack: stack[offset] is replaced in place by the candidate with the new
\* timestamp and offset is unchanged.
C6_Coalesces ==
    [][Coalescible =>
          /\ Len(stack') <= Len(stack)
          /\ offset' = offset
          /\ At(stack', offset) = Stamped(input', now')]_vars

\* C7: a change that does not meet the conditions of coalescing pushes
\* {candidate, timestamp} as the last element, offset increases by one to
\* point at it, and the previously current record is left unmodified.
C7_Pushes ==
    [][ev'.kind = "change" /\ ~Coalescible =>
          /\ At(stack', Len(stack') - 1) = Stamped(input', now')
          /\ offset' = offset + 1
          /\ offset' = Len(stack') - 1
          /\ At(stack', offset' - 1) = At(stack, offset)]_vars

\* C8: applyTransformResult always appends its result as a new record, and
\* the record it appended is not replaced in place by the change that
\* follows it.
C8_TransformsOwnStep ==
    [][/\ Transformed(ev') =>
             /\ Len(stack') = offset + 2
             /\ offset' = offset + 1
             /\ At(stack', offset') = Stamped(input', now')
       /\ Transformed(ev) /\ ev'.kind = "change" =>
             At(stack', offset) = At(stack, offset)]_vars

\* C9: every record of the history and the buffer, as the transforms,
\* captureSelection, undo and redo leave them, satisfy
\* 0 <= selectionStart <= selectionEnd <= length(value).
C9_SelectionsInRange ==
    /\ WellFormed(input)
    /\ \A i \in DOMAIN stack : WellFormed(stack[i])

\* C9 witness: Tab indented the lines of a selection that starts on the
\* second line.
C9_Witness ==
    /\ ev.kind = "tab"
    /\ tabSize = 2
    /\ input.selectionStart # input.selectionEnd
    /\ lineOf(input.value, input.selectionStart) = 1

ABCD == <<"a", "b", "c", "d">>

\* Tab is pressed with the caret at position 4 of "abcd", tabSize = 2,
\* insertSpaces = true.
TabAtEndOfABCD ==
    /\ ev'.kind = "tab"
    /\ input = Record(ABCD, 4, 4)
    /\ tabSize = 2
    /\ insertSpaces

\* C10 as stated: the Tab commits the value "ab  cd" with selection (6, 6).
C10_TabInTheMiddle ==
    [][TabAtEndOfABCD =>
          /\ input' = Record(<<"a", "b", SP, SP, "c", "d">>, 6, 6)
          /\ Unstamped(At(stack', offset')) = input']_vars

\* C10 as amended: the Tab commits the value "abcd  " with selection (6, 6).
C10_TabAtCaret ==
    [][TabAtEndOfABCD =>
          /\ input' = Record(ABCD \o <<SP, SP>>, 6, 6)
          /\ Unstamped(At(stack', offset')) = input']_vars

\* C10 witness: the Tab at position 4 of "abcd" was committed.
C10_Witness ==
    /\ ev.kind = "tab"
    /\ tabSize = 2
    /\ insertSpaces
    /\ Len(stack) = 2
    /\ Unstamped(stack[1]) = Record(ABCD, 4, 4)
    /\ input = Record(ABCD \o <<SP, SP>>, 6, 6)


\* The 0-based index of the line of value that holds position: the number
\* of line breaks before it.
lineHolding(value, position) ==
    Cardinality({k \in 1..position : value[k] = NL})

\* C11: Tab with a non-collapsed selection prepends tabCharacter to exactly
\* the lines startLine..endLine, leaves the other lines and the number of
\* lines unchanged, and commits selectionStart + len(tabCharacter) and
\* selectionEnd + len(tabCharacter) * (endLine - startLine + 1); "a\nb"
\* fully selected with tabSize = 2 becomes "  a\n  b" with selection (2, 7).
C11_IndentsSelectedLines ==
    [][ev'.kind = "tab" /\ input.selectionStart # input.selectionEnd =>
          LET tab == tabCharacter(tabSize, insertSpaces)
              startLine == lineHolding(input.value, input.selectionStart)
              endLine == lineHolding(input.value, input.selectionEnd)
              old == splitLines(input.value)
              new == splitLines(input'.value)
          IN /\ Len(new) = Len(old)
             /\ \A i \in 1..Len(old) :
                   new[i] = IF startLine <= i - 1 /\ i - 1 <= endLine
                            THEN tab \o old[i] ELSE old[i]
             /\ input'.selectionStart = input.selectionStart + Len(tab)
             /\ input'.selectionEnd =
                   input.selectionEnd + Len(tab) * (endLine - startLine + 1)
             /\ Unstamped(At(stack', offset')) = input'
             /\ (input = Record(<<"a", NL, "b">>, 0, 3) /\ tabSize = 2
                     /\ insertSpaces
                   => input' = Record(<<SP, SP, "a", NL, SP, SP, "b">>, 2, 7))]_vars

\* C11 witness: Tab indented both lines of "a\nb", fully selected.
C11_Witness ==
    /\ ev.kind = "tab"
    /\ tabSize = 2
    /\ insertSpaces
    /\ Len(stack) = 2
    /\ Unstamped(stack[1]) = Record(<<"a", NL, "b">>, 0, 3)
    /\ input = Record(<<SP, SP, "a", NL, SP, SP, "b">>, 2, 7)

\* Backspace is pressed with a collapsed selection and the caret
\* immediately after a tab character.
BackspaceAfterTab ==
    /\ ev'.kind = "backspace"
    /\ input.selectionStart = input.selectionEnd
    /\ endsWith(substring(input.value, 0, input.selectionStart),
                tabCharacter(tabSize, insertSpaces))

\* The step commits the old value without the count characters that end
\* at the caret, the caret collapsed count positions to the left.
Dedents(count) ==
    LET caret == input.selectionStart - count
    IN /\ input' = Record(SubSeq(input.value, 1, caret)
                              \o SubSeq(input.value, input.selectionStart + 1,
                                        Len(input.value)),
                          caret, caret)
       /\ Unstamped(At(stack', offset')) = input'
       /\ ev'.prevented

\* C12 as stated: Backspace with a collapsed selection and the caret
\* immediately after a tab character removes exactly tabSize characters,
\* for every configuration (tabSize, insertSpaces).
C12_RemovesTabSize ==
    [][BackspaceAfterTab => Dedents(tabSize)]_vars

\* C12 as amended: Backspace with a collapsed selection and the caret
\* immediately after a tab character removes exactly len(tabCharacter)
\* characters: tabSize of them when insertSpaces is true, 5 * tabSize when
\* it is false.
C12_RemovesTabCharacter ==
    [][BackspaceAfterTab =>
          Dedents(IF insertSpaces THEN tabSize ELSE 5 * tabSize)]_vars

\* C12 witness: with insertSpaces false and tabSize 2, Backspace after a
\* Tab took back the ten characters the Tab had inserted.
C12_Witness ==
    /\ ev.kind = "backspace"
    /\ ev.prevented
    /\ ~insertSpaces
    /\ tabSize = 2
    /\ Len(stack) = 3
    /\ Len(stack[2].value) = Len(stack[1].value) + 10
    /\ input = Unstamped(stack[1])

\* The text of the caret's line before the caret: what follows the last
\* line break before the caret.
lineBeforeCaret(r) ==
    LET breaks == {k \in 1..r.selectionStart : r.value[k] = NL}
        from == IF breaks = {} THEN 0
                ELSE CHOOSE k \in breaks : \A j \in breaks : j <= k
    IN SubSeq(r.value, from + 1, r.selectionStart)

\* The whitespace run that starts line, which starts with whitespace.
leadingWhitespace(line) ==
    LET k == CHOOSE n \in 1..Len(line) :
                 /\ \A j \in 1..n : line[j] \in Space
                 /\ n = Len(line) \/ line[n + 1] \notin Space
    IN SubSeq(line, 1, k)

\* Enter is pressed with a collapsed selection on a line whose text before
\* the caret starts with whitespace.
EnterOnIndentedLine ==
    /\ ev'.kind = "enter"
    /\ input.selectionStart = input.selectionEnd
    /\ lineBeforeCaret(input) # <<>>
    /\ lineBeforeCaret(input)[1] \in Space

\* C13: Enter with a collapsed selection on a line whose text before the
\* caret starts with a whitespace run inserts "\n" and that whole run at the
\* caret, keeps the text after the caret, and collapses the caret to
\* selectionStart + len(inserted); on "  foo" with the caret at the end it
\* inserts "\n  ".
C13_EnterKeepsIndent ==
    [][EnterOnIndentedLine =>
          LET inserted == <<NL>> \o leadingWhitespace(lineBeforeCaret(input))
              caret == input.selectionStart + Len(inserted)
          IN /\ input' = Record(SubSeq(input.value, 1, input.selectionStart)
                                    \o inserted
                                    \o SubSeq(input.value, input.selectionStart + 1,
                                              Len(input.value)),
                                caret, caret)
             /\ Unstamped(At(stack', offset')) = input'
             /\ ev'.prevented
             /\ (input = Record(<<SP, SP, "f", "o", "o">>, 5, 5)
                   => input'.value = <<SP, SP, "f", "o", "o", NL, SP, SP>>)]_vars

\* C13 witness: Enter at the end of "  foo" carried the indent of two
\* spaces to the new line.
C13_Witness ==
    /\ ev.kind = "enter"
    /\ Len(stack) = 2
    /\ Unstamped(stack[1]) = Record(<<SP, SP, "f", "o", "o">>, 5, 5)
    /\ input = Record(<<SP, SP, "f", "o", "o", NL, SP, SP>>, 8, 8)

\* C14 as stated: whenever a value-changed notification is emitted,
\* stack[offset].value equals the notified value at that moment, for
\* changes, for transform commits, for undo and for redo.
C14_NotifiedAfterRecorded ==
    \A i \in DOMAIN ev.notified :
        ev.notified[i].current = ev.notified[i].value

\* C14 as amended: a notification of a change or of a transform commit is
\* emitted when stack[offset].value already equals the notified value; undo
\* and redo notify while stack[offset] is still the record they leave, and
\* stack[offset].value equals the notified value when the handler is done.
C14_NotifiedThenMoved ==
    [][\A i \in DOMAIN ev'.notified :
          LET n == ev'.notified[i]
          IN /\ At(stack', offset').value = n.value
             /\ IF ev'.kind \in {"undo", "redo"}
                THEN n.current = At(stack, offset).value
                ELSE n.current = n.value]_vars

\* C14 witness: an undo notified a value that is not the value of the
\* record that was current at that moment.
C14_Witness ==
    /\ ev.kind = "undo"
    /\ ev.notified # <<>>
    /\ ev.notified[1].current # ev.notified[1].value
    /\ At(stack, offset).value = ev.notified[1].value

\* C15: after a key transform is committed, one undo restores the buffer to
\* the value and the live selection it had when the key was pressed, also
\* when that selection had drifted from the one stored in the current
\* record; saving the selection changes only selectionStart and
\* selectionEnd of the current record.
C15_UndoRestoresPressed ==
    [][/\ Transformed(ev') =>
             LET shift == offset + 1 - offset'
             IN /\ At(stack', offset' - 1) =
                      [At(stack, offset) EXCEPT
                          !.selectionStart = input.selectionStart,
                          !.selectionEnd = input.selectionEnd]
                /\ \A i \in 0..(offset' - 2) :
                      At(stack', i) = At(stack, i + shift)
                /\ _undoEdit(History(stack', offset'), input').input = input
       /\ Transformed(ev) /\ ev'.kind = "undo" =>
             /\ input' = Unstamped(At(stack, offset - 1))
             /\ offset' = offset - 1]_vars

\* C15 witness: a key transform was committed after the selection had
\* drifted to the start of the text, and undo would restore that selection.
C15_Witness ==
    /\ Transformed(ev)
    /\ Len(stack) = 2
    /\ Len(stack[1].value) >= 2
    /\ stack[1].selectionStart = 0
    /\ _undoEdit(Here, input).input = Unstamped(stack[1])

\* The step calls _recordChange on a history whose records up to offset
\* are more than HISTORY_LIMIT.
Trims == Recorded(ev') /\ offset + 1 > HISTORY_LIMIT

\* C16: when a record call finds the truncated stack longer than
\* HISTORY_LIMIT, exactly the oldest length - HISTORY_LIMIT records are
\* dropped, the others are kept unchanged and in order, and offset
\* decreases by the same amount, so that it designates the same record
\* before and after the trim.
C16_TrimDropsOldest ==
    [][Trims =>
          LET extras == offset + 1 - HISTORY_LIMIT
              base == offset - extras
              current == IF Transformed(ev')
                         THEN [At(stack, offset) EXCEPT
                                  !.selectionStart = input.selectionStart,
                                  !.selectionEnd = input.selectionEnd]
                         ELSE At(stack, offset)
          IN /\ base >= 0
             /\ \A i \in 0..(base - 1) : At(stack', i) = At(stack, i + extras)
             /\ IF ev'.overwrote
                THEN offset' = base /\ Len(stack') = base + 1
                ELSE /\ At(stack', base) = current
                     /\ offset' = base + 1
                     /\ Len(stack') = base + 2]_vars

\* C16 witness: the history was trimmed while all its records differ: it
\* holds HISTORY_LIMIT + 1 records and the oldest is no longer the record
\* of the mount.
C16_Witness ==
    /\ Recorded(ev)
    /\ Len(stack) = HISTORY_LIMIT + 1
    /\ stack[1].value # <<>>
    /\ \A i, j \in DOMAIN stack : i # j => stack[i] # stack[j]

\* The key of the step is a Backspace or an Enter that the handler leaves
\* to the textarea: Backspace with a selection or with text before the
\* caret that does not end with tabCharacter, Enter with a selection or on
\* a line that does not start with whitespace before the caret.
LeftToTextarea ==
    \/ /\ ev'.kind = "backspace"
       /\ \/ input.selectionStart # input.selectionEnd
          \/ ~endsWith(SubSeq(input.value, 1, input.selectionStart),
                       tabCharacter(tabSize, insertSpaces))
    \/ /\ ev'.kind = "enter"
       /\ \/ input.selectionStart # input.selectionEnd
          \/ lineBeforeCaret(input) = <<>>
          \/ lineBeforeCaret(input)[1] \notin Space

\* C17: a key event that is not intercepted leaves the stack, offset and
\* the buffer unchanged, does not suppress the default action and emits no
\* notification; Tab is always intercepted.
C17_LeftKeysChangeNothing ==
    [][/\ LeftToTextarea =>
             /\ stack' = stack
             /\ offset' = offset
             /\ input' = input
             /\ ~ev'.prevented
             /\ ev'.notified = <<>>
       /\ ev'.kind = "tab" => ev'.prevented /\ ev'.notified # <<>>]_vars

\* C17 witness: a Backspace on a selection that follows a tab character
\* was left to the textarea.
C17_Witness ==
    /\ ev.kind = "backspace"
    /\ ~ev.prevented
    /\ tabSize = 1
    /\ input.selectionStart # input.selectionEnd
    /\ input.selectionStart > 0
    /\ input.value[input.selectionStart] = SP

\* The step types the second character of a word: the step before it
\* typed an alphanumeric character after a character that is not
\* alphanumeric, and this step, with no time passed, types an alphanumeric
\* character after it.
TypesSecondCharacter ==
    LET caret == input.selectionStart
    IN /\ ev.kind = "change"
       /\ ev'.kind = "change"
       /\ now' - now < HISTORY_TIME_GAP
       /\ input.selectionEnd = caret
       /\ caret >= 2
       /\ input.value[caret] \in Alnum
       /\ input.value[caret - 1] \notin Alnum
       /\ \E c \in Alnum : input' = hostType(input, c)

\* The value of the buffer before the first character of the word, the
\* character before the caret, was typed.
BeforeWord ==
    SubSeq(input.value, 1, input.selectionStart - 1)
        \o SubSeq(input.value, input.selectionStart + 1, Len(input.value))

\* C18: when a word of two alphanumeric characters, preceded on its line by
\* a character that is not alphanumeric, is typed one character at a time
\* with less than HISTORY_TIME_GAP between the changes, the word occupies a
\* single record (the current one, the record before it holds the value
\* that preceded the word), and one undo restores that value.
C18_UndoTakesBackWord ==
    [][TypesSecondCharacter =>
          /\ At(stack', offset').value = input'.value
          /\ At(stack', offset' - 1) # None
          /\ At(stack', offset' - 1).value = BeforeWord
          /\ _undoEdit(History(stack', offset'), input').input.value
                = BeforeWord]_vars

\* C19: after the mount, whenever a handler has completed, the current
\* record mirrors the buffer's text: stack[offset].value = value of the
\* buffer.
C19_CurrentMirrorsBuffer ==
    mounted =>
        /\ At(stack, offset) # None
        /\ At(stack, offset).value = input.value

\* C19 witness: a redo has moved to the newest of two records with
\* different texts.
C19_Witness ==
    /\ ev.kind = "redo"
    /\ ev.notified # <<>>
    /\ offset = 1
    /\ stack[1].value # stack[2].value

\* C20: every Backspace the handler intercepts deletes at least one
\* character: when the default deletion is suppressed, the committed value
\* is strictly shorter than the value before the key press, for every
\* tabSize >= 0 and either insertSpaces setting.
C20_InterceptedBackspaceDeletes ==
    [][ev'.kind = "backspace" /\ ev'.prevented =>
          Len(input'.value) < Len(input.value)]_vars
====
